---------------------------- MODULE Spec2Model ----------------------------
(* A model of the street-view image classification repository:            *)
(*   src/baseline.py  class Model (fit / predict / evaluation)            *)
(*   src/predict.py   the batch inference script                          *)
(* Tensors are abstracted to small integers: an image is a member of      *)
(* Images, the network's weights are one member of ParamSpace, a python   *)
(* float is an exact rational [num, den], a python str is a sequence of   *)
(* one-character strings.                                                 *)
EXTENDS Integers, Sequences, FiniteSets, TLC

(* ------------------------------ bounds ------------------------------- *)
\* epochs: num_epochs in 0..MaxEpochs, checkpoint_epochs in None, 1..MaxEpochs
MaxEpochs == 2
\* a data stream yields 0..MaxBatches batches
MaxBatches == 2
\* the inference script lists 0..MaxFiles files
MaxFiles == 3
\* the ensemble holds 1..MaxModels sub-models
MaxModels == 3
\* the DataLoader batch size of the script is drawn from 1..MaxBatchSize
MaxBatchSize == 2

\* the images, the label classes of the network's output layer (the script's
\* target class is 1) and the weight states of the abstract network
Images == 0 .. 2
Labels == 0 .. 1
ParamSpace == 0 .. 1
\* outcomes of the stochastic layers (dropout) of a forward pass in training mode;
\* 0 is the pass with the stochastic layers switched off (evaluation mode)
Masks == 0 .. 1
\* outcomes of one draw of the random augmentation pipeline trfm
AugDraws == 0 .. 1

(* ------------------------ sequences and numbers ---------------------- *)
Range(s) == {s[i] : i \in DOMAIN s}

Count(s, v) == Cardinality({i \in DOMAIN s : s[i] = v})

Max(S) == CHOOSE m \in S : \A k \in S : k <= m

Min(S) == CHOOSE m \in S : \A k \in S : m <= k

\* python true division of two numbers, kept exact
Div(a, b) == [num |-> a, den |-> b]

(* --------------------------- the network ----------------------------- *)
\* self.model(X) for one image: the score of class c
Score(p, x, c, mask) ==
    ((p + 1) * (x + c + 1) + (p + x) * c + mask * (c + 1) * (x + 1)) % 5

\* .argmax(dim=1) for one row: the first index of a maximal score
Argmax(p, x, mask) ==
    LET top == Max({Score(p, x, c, mask) : c \in Labels})
    IN  Min({c \in Labels : Score(p, x, c, mask) = top})

\* self.model(X): a forward pass of a batch; the stochastic layers act only in
\* training mode
ForwardMasks(isTraining) == IF isTraining THEN Masks ELSE {0}

\* self.model(X).argmax(dim=1) of a batch of images
ArgmaxBatch(p, X, mask) == [i \in DOMAIN X |-> Argmax(p, X[i], mask)]

\* torch.nn.CrossEntropyLoss()(self.model(X), y): positive, 1 at best
RECURSIVE LossSum(_, _, _, _)
LossSum(p, X, y, mask) ==
    IF X = <<>> THEN 0
    ELSE Max({Score(p, Head(X), c, mask) : c \in Labels})
           - Score(p, Head(X), Head(y), mask)
           + LossSum(p, Tail(X), Tail(y), mask)

CrossEntropyLoss(p, X, y, mask) == 1 + LossSum(p, X, y, mask)

\* optimizer.step() after loss.backward(): the weights move
SGDStep(p, loss) == (p + 1 + loss) % Cardinality(ParamSpace)

\* trfm(image=...)["image"]: one random augmentation of one image
Augment(x, draw) == IF draw = 0 THEN x ELSE (x + draw) % Cardinality(Images)

(* ----------------------------- streams ------------------------------- *)
\* the k-th batch of the data set: (X, y) of 1 or 2 samples
BatchOf(k) ==
    LET len == 1 + (k % 2)
    IN  [X |-> [j \in 1 .. len |-> (k + j) % Cardinality(Images)],
         y |-> [j \in 1 .. len |-> (k \div 2 + j) % Cardinality(Labels)]]

NoneStream == [kind |-> "none", batches |-> <<>>, pos |-> 0]

\* a DataLoader (restartable: every for-loop iterates it from the start) or a
\* generator (one-shot: a for-loop resumes where the last one stopped)
StreamOf(kind, len) == [kind |-> kind, batches |-> [i \in 1 .. len |-> BatchOf(i)], pos |-> 0]

Streams ==
    {StreamOf("loader", len) : len \in 0 .. MaxBatches}
      \cup {StreamOf("generator", len) : len \in 1 .. MaxBatches}

\* `for ... in stream`: iter(stream)
StartIter(s) == IF s.kind = "loader" THEN [s EXCEPT !.pos = 0] ELSE s

HasNext(s) == s.pos < Len(s.batches)

NextBatch(s) == s.batches[s.pos + 1]

Advance(s) == [s EXCEPT !.pos = @ + 1]

(* ------------------------- python formatting ------------------------- *)
DigitChar(d) == <<"0", "1", "2", "3", "4", "5", "6", "7", "8", "9">>[d + 1]

DigitVal(ch) == CHOOSE d \in 0 .. 9 : DigitChar(d) = ch

RECURSIVE Pow10(_)
Pow10(k) == IF k = 0 THEN 1 ELSE 10 * Pow10(k - 1)

\* "%d" % n for n >= 0
RECURSIVE IntDigits(_)
IntDigits(n) ==
    IF n < 10 THEN <<DigitChar(n)>>
    ELSE IntDigits(n \div 10) \o <<DigitChar(n % 10)>>

\* n written with exactly w digits
RECURSIVE PadDigits(_, _)
PadDigits(n, w) ==
    IF w = 0 THEN <<>> ELSE PadDigits(n \div 10, w - 1) \o <<DigitChar(n % 10)>>

\* a / b rounded to the nearest integer, a tie to the even one (a >= 0, b > 0)
RoundDiv(a, b) ==
    LET q == a \div b
        r == a % b
    IN  IF 2 * r < b THEN q
        ELSE IF 2 * r > b THEN q + 1
        ELSE IF q % 2 = 0 THEN q ELSE q + 1

\* "%.<prec>f" % v for a float v >= 0
FormatFloat(v, prec) ==
    IF v.den = 0 THEN <<"n", "a", "n">>
    ELSE LET t == RoundDiv(v.num * Pow10(prec), v.den)
         IN  IntDigits(t \div Pow10(prec)) \o <<".">> \o PadDigits(t % Pow10(prec), prec)

\* fmt % args: the conversions %s, %d and %.Nf consume the arguments in order
RECURSIVE PyFormat(_, _)
PyFormat(fmt, args) ==
    IF fmt = <<>> THEN <<>>
    ELSE IF Head(fmt) # "%" THEN <<Head(fmt)>> \o PyFormat(Tail(fmt), args)
    ELSE IF fmt[2] = "s" THEN Head(args) \o PyFormat(SubSeq(fmt, 3, Len(fmt)), Tail(args))
    ELSE IF fmt[2] = "d"
         THEN IntDigits(Head(args)) \o PyFormat(SubSeq(fmt, 3, Len(fmt)), Tail(args))
    ELSE FormatFloat(Head(args), DigitVal(fmt[3]))
           \o PyFormat(SubSeq(fmt, 5, Len(fmt)), Tail(args))

\* "%s/epoch%d_trainloss%.3f_validloss%.3f_trainacc%.3f_validacc%.3f.pth"
CheckpointFormat ==
    <<"%", "s", "/", "e", "p", "o", "c", "h", "%", "d",
      "_", "t", "r", "a", "i", "n", "l", "o", "s", "s", "%", ".", "3", "f",
      "_", "v", "a", "l", "i", "d", "l", "o", "s", "s", "%", ".", "3", "f",
      "_", "t", "r", "a", "i", "n", "a", "c", "c", "%", ".", "3", "f",
      "_", "v", "a", "l", "i", "d", "a", "c", "c", "%", ".", "3", "f",
      ".", "p", "t", "h">>

\* the path with the validation loss and the train accuracy in each other's place
CheckpointNameSwapped(model_save_path, epoch, train_loss, valid_loss, train_acc, valid_acc) ==
    PyFormat(CheckpointFormat,
             <<model_save_path, epoch + 1, train_loss, train_acc, valid_loss, valid_acc>>)

\* the path handed to torch.save
CheckpointName(model_save_path, epoch, train_loss, valid_loss, train_acc, valid_acc) ==
    PyFormat(CheckpointFormat,
             <<model_save_path, epoch + 1, train_loss, valid_loss, train_acc, valid_acc>>)


(* ------------------------ helpers of utils.py ------------------------ *)
\* calculate_classification_score(y_true, y_pred, "Accuracy"): the share of
\* positions at which the prediction equals the label
calculate_classification_score(y_true, y_pred) ==
    Div(Cardinality({i \in DOMAIN y_true : i \in DOMAIN y_pred /\ y_pred[i] = y_true[i]}),
        Len(y_true))

(* ------------------------------ state -------------------------------- *)
VARIABLES
    params,             \* self.model: the weights
    training,           \* self.model.training: TRUE in training mode
    pc,                 \* where the running call of the wrapper stands
    fit,                \* the frame of Model.fit
    ev,                 \* the frame of Model.evaluation
    result,             \* how the last call of the wrapper ended
    call,               \* the call in progress: its arguments, the weights at entry,
                        \* and counts of what it has done so far
    written,            \* the torch.save calls of the call in progress, in order
    lastInfer,          \* the last forward pass: who ran it and in which mode
    tta,                \* the last sample voted on by test-time augmentation
    probe,              \* an earlier predict call of an unbroken series of predict calls
    file_list,          \* script: glob.glob(...)
    model_dict,         \* script: the weights of the sub-models, in mapping order
    batch_size,         \* script: DataLoader(batch_size=...)
    loader_pos,         \* script: files already yielded by the DataLoader
    predict_list,       \* script: predict_list
    noise_barrier_list, \* script: noise_barrier_list
    copied,             \* script: what multi_processing_copyfile was handed
    spc                 \* script: where the script stands

wrapperVars == <<params, training, pc, fit, ev, result, call, written, lastInfer, tta, probe>>

scriptVars == <<file_list, model_dict, batch_size, loader_pos, predict_list,
                noise_barrier_list, copied, spc>>

vars == <<params, training, pc, fit, ev, result, call, written, lastInfer, tta, probe,
          file_list, model_dict, batch_size, loader_pos, predict_list,
          noise_barrier_list, copied, spc>>

None == <<>>

NoFit == [active |-> FALSE]

NoEv == [active |-> FALSE]

NoCall == [op |-> "none"]

NoResult == [status |-> "none"]

NoInfer == [by |-> "none"]

NoTta == [voted |-> FALSE]

NoProbe == [set |-> FALSE]

\* range(a, b)
RangeSeq(a, b) == [i \in 1 .. (IF b > a THEN b - a ELSE 0) |-> a + i - 1]

\* the truth value python gives an optional integer
Truthy(opt) == opt # None /\ opt[1] # 0

(* ---------------------------- Model.fit ------------------------------ *)
\* the test with `and` in place of `or`
StreamsMissingBoth(train_iter, validation_iter) ==
    train_iter.kind = "none" /\ validation_iter.kind = "none"

\* baseline.py:46: the test of the two streams
StreamsMissing(train_iter, validation_iter) ==
    train_iter.kind = "none" \/ validation_iter.kind = "none"

\* baseline.py:62
EpochIter(num_epochs, checkpoint_epochs) ==
    IF Truthy(checkpoint_epochs)
    THEN RangeSeq(num_epochs, num_epochs + checkpoint_epochs[1])
    ELSE RangeSeq(0, num_epochs)

\* an epoch loop that leaves the mode as it finds it
ModeKeptInEpoch(isTraining) == isTraining

\* baseline.py:65: self.model.train() puts the network in training mode
ModeInFitEpoch(isTraining) == TRUE

\* a division that yields nan where python raises
DivisionYieldsNan(den) == FALSE

\* baseline.py:86 and 154: python's `/` raises ZeroDivisionError on a zero divisor
DivisionRaises(den) == den = 0

\* a list extended at its front
ExtendFront(list, items) == items \o list

\* list.extend(items): predict.py:34, baseline.py:126 and 144
Extend(list, items) == list \o items

\* baseline.py:43-62: the call, up to the epoch loop
FitCall(train_iter, validation_iter, num_epochs, checkpoint_epochs, model_save_path) ==
    /\ pc = "idle"
    /\ call' = [op |-> "fit", train_iter |-> train_iter, validation_iter |-> validation_iter,
                num_epochs |-> num_epochs, checkpoint_epochs |-> checkpoint_epochs,
                model_save_path |-> model_save_path, params0 |-> params,
                steps |-> 0, passes |-> 0, evals |-> 0]
    /\ written' = <<>>
    /\ probe' = NoProbe
    /\ IF StreamsMissing(train_iter, validation_iter)
       THEN /\ result' = [status |-> "InvalidArguments"]
            /\ pc' = "done"
            /\ fit' = NoFit
       ELSE /\ fit' = [active |-> TRUE,
                       train_iter |-> train_iter, validation_iter |-> validation_iter,
                       model_save_path |-> model_save_path,
                       epoch_iter |-> EpochIter(num_epochs, checkpoint_epochs),
                       epoch |-> 0, n |-> 0, batch_count |-> 0,
                       train_loss_sum |-> 0, train_acc_sum |-> 0,
                       train_acc_list |-> <<>>, valid_acc_list |-> <<>>,
                       valid_acc |-> Div(0, 1), valid_loss |-> Div(0, 1)]
            /\ pc' = "fit_epoch"
            /\ result' = NoResult
    /\ UNCHANGED <<params, training, ev, lastInfer, tta>>
    /\ UNCHANGED scriptVars

\* baseline.py:63-65: the head of the epoch loop; after the last epoch the call
\* returns (the optional plot of lines 103-111 changes no state)
FitEpoch ==
    /\ pc = "fit_epoch"
    /\ IF fit.epoch_iter = <<>>
       THEN /\ pc' = "done"
            /\ result' = [status |-> "ok", op |-> "fit"]
            /\ UNCHANGED <<fit, training>>
       ELSE /\ fit' = [fit EXCEPT !.epoch = Head(fit.epoch_iter),
                                  !.epoch_iter = Tail(fit.epoch_iter),
                                  !.n = 0, !.batch_count = 0,
                                  !.train_loss_sum = 0, !.train_acc_sum = 0,
                                  !.train_iter = StartIter(@)]
            /\ training' = ModeInFitEpoch(training)
            /\ pc' = "fit_train"
            /\ UNCHANGED result
    /\ UNCHANGED <<params, ev, call, written, lastInfer, tta, probe>>
    /\ UNCHANGED scriptVars

\* baseline.py:67-83: one batch of the train stream
FitTrainBatch ==
    /\ pc = "fit_train"
    /\ HasNext(fit.train_iter)
    /\ \E mask \in ForwardMasks(training) :
          LET b == NextBatch(fit.train_iter)
              y_pred == ArgmaxBatch(params, b.X, mask)
              loss == CrossEntropyLoss(params, b.X, b.y, mask)
          IN  /\ params' = SGDStep(params, loss)
              /\ fit' = [fit EXCEPT !.train_iter = Advance(@),
                                    !.train_loss_sum = @ + loss,
                                    !.train_acc_sum =
                                        @ + Cardinality({i \in DOMAIN b.y : y_pred[i] = b.y[i]}),
                                    !.batch_count = @ + 1,
                                    !.n = @ + Len(b.y)]
    /\ lastInfer' = [by |-> "fit", training |-> training]
    /\ call' = [call EXCEPT !.steps = @ + 1]
    /\ UNCHANGED <<training, pc, ev, result, written, tta, probe>>
    /\ UNCHANGED scriptVars

\* Model.evaluation's locals at entry (baseline.py:122-125)
EvalFrame(test_iter, loss_criterion, TTA, caller) ==
    [active |-> TRUE, test_iter |-> StartIter(test_iter),
     loss_criterion |-> loss_criterion, TTA |-> TTA, caller |-> caller,
     y_true |-> <<>>, y_pred |-> <<>>, eval_loss_sum |-> 0, batch_count |-> 0,
     rest |-> <<>>]

\* baseline.py:84: the train stream is exhausted; evaluation is called on the
\* validation stream with the loss criterion and without TTA
FitValidate ==
    /\ pc = "fit_train"
    /\ ~HasNext(fit.train_iter)
    /\ ev' = EvalFrame(fit.validation_iter, TRUE, FALSE, "fit")
    /\ call' = [call EXCEPT !.passes = @ + 1, !.evals = @ + 1]
    /\ pc' = "eval_batch"
    /\ UNCHANGED <<params, training, fit, result, written, lastInfer, tta, probe>>
    /\ UNCHANGED scriptVars

\* baseline.py:91: `if model_save_path:`
SavesCheckpoint(model_save_path) == model_save_path # None

\* baseline.py:86-101: the accuracies are recorded, the progress line printed
\* and the checkpoint written
FitRecord ==
    /\ pc = "fit_record"
    /\ IF DivisionRaises(fit.n)
       THEN /\ result' = [status |-> "ZeroDivisionError", op |-> "fit"]
            /\ pc' = "done"
            /\ UNCHANGED <<fit, written>>
       ELSE /\ fit' = [fit EXCEPT
                          !.train_acc_list = Append(@, Div(fit.train_acc_sum, fit.n)),
                          !.valid_acc_list = Append(@, fit.valid_acc)]
            /\ written' =
                 IF SavesCheckpoint(fit.model_save_path)
                 THEN Append(written,
                        [path |-> CheckpointName(fit.model_save_path, fit.epoch,
                                       Div(fit.train_loss_sum, fit.batch_count),
                                       fit.valid_loss,
                                       Div(fit.train_acc_sum, fit.n),
                                       fit.valid_acc),
                         state_dict |-> params])
                 ELSE written
            /\ pc' = "fit_epoch"
            /\ UNCHANGED result
    /\ UNCHANGED <<params, training, ev, call, lastInfer, tta, probe>>
    /\ UNCHANGED scriptVars

(* --------------------------- Model.predict --------------------------- *)
\* a predict that leaves the mode as it finds it
ModeKept(isTraining) == isTraining

\* baseline.py:116: self.model.eval() leaves the network in evaluation mode
ModeInPredict(isTraining) == FALSE

\* baseline.py:113-119: what one call of predict may return; the mode it leaves
\* the network in is ModeInPredict(isTraining)
PredictOutcomes(p, isTraining, X) ==
    {ArgmaxBatch(p, X, mask) : mask \in ForwardMasks(ModeInPredict(isTraining))}

\* the call of predict from outside the class
Predict(X) ==
    /\ pc = "idle"
    /\ \E out \in PredictOutcomes(params, training, X) :
          /\ result' = [status |-> "ok", op |-> "predict", value |-> out]
          /\ \/ probe' = probe
             \/ /\ ~probe.set
                /\ probe' = [set |-> TRUE, params |-> params, X |-> X, out |-> out]
    /\ call' = [op |-> "predict", X |-> X, params0 |-> params, compared |-> probe.set]
    /\ training' = ModeInPredict(training)
    /\ lastInfer' = [by |-> "predict", training |-> ModeInPredict(training)]
    /\ written' = <<>>
    /\ pc' = "done"
    /\ UNCHANGED <<params, fit, ev, tta>>
    /\ UNCHANGED scriptVars

(* -------------------------- Model.evaluation ------------------------- *)
\* the call of evaluation from outside the class
EvaluationCall(test_iter, loss_criterion, TTA) ==
    /\ pc = "idle"
    /\ ev' = EvalFrame(test_iter, loss_criterion, TTA, "top")
    /\ call' = [op |-> "evaluation", test_iter |-> test_iter,
                loss_criterion |-> loss_criterion, TTA |-> TTA, params0 |-> params,
                steps |-> 0, passes |-> 0, evals |-> 1]
    /\ written' = <<>>
    /\ result' = NoResult
    /\ pc' = "eval_batch"
    /\ probe' = NoProbe
    /\ UNCHANGED <<params, training, fit, lastInfer, tta>>
    /\ UNCHANGED scriptVars

\* baseline.py:125-127 and 143-149: the next batch of the stream; without TTA
\* it is predicted as a whole and its loss accumulated
EvalBatch ==
    /\ pc = "eval_batch"
    /\ HasNext(ev.test_iter)
    /\ LET b == NextBatch(ev.test_iter)
           e1 == [ev EXCEPT !.test_iter = Advance(@), !.y_true = Extend(@, b.y)]
       IN  IF ev.TTA
           THEN /\ ev' = [e1 EXCEPT !.rest = b.X]
                /\ pc' = "eval_tta"
                /\ UNCHANGED <<training, lastInfer>>
           ELSE /\ \E out \in PredictOutcomes(params, training, b.X) :
                      ev' = [e1 EXCEPT
                               !.y_pred = Extend(@, out),
                               !.eval_loss_sum =
                                   IF ev.loss_criterion
                                   THEN @ + CrossEntropyLoss(params, b.X, b.y, 0)
                                   ELSE @,
                               !.batch_count = @ + 1]
                /\ training' = IF ev.loss_criterion THEN FALSE ELSE ModeInPredict(training)
                /\ lastInfer' = IF ev.loss_criterion
                                THEN [by |-> "evaluation", training |-> FALSE]
                                ELSE [by |-> "predict", training |-> ModeInPredict(training)]
                /\ UNCHANGED pc
    /\ UNCHANGED <<params, fit, result, call, written, tta, probe>>
    /\ UNCHANGED scriptVars

\* the first prediction in place of the most frequent one
FirstPrediction(pred_y_list) == pred_y_list[1]

\* scipy.stats.mode(pred_y_list)[0][0]: the most frequent label, the smallest
\* one among equally frequent labels
StatsMode(pred_y_list) ==
    LET best == Max({Count(pred_y_list, v) : v \in Range(pred_y_list)})
    IN  Min({v \in Range(pred_y_list) : Count(pred_y_list, v) = best})

\* baseline.py:130-139: the number of augmented copies predicted per sample
TTACopies == 5

\* baseline.py:129-141: one sample of the batch under TTA
EvalTTASample ==
    /\ pc = "eval_tta"
    /\ ev.rest # <<>>
    /\ \E draws \in [1 .. TTACopies -> AugDraws] :
       \E masks \in [1 .. TTACopies -> ForwardMasks(ModeInPredict(training))] :
          LET single_X == Head(ev.rest)
              trfm_X == [i \in 1 .. TTACopies |-> <<Augment(single_X, draws[i])>>]
              pred_y_list == [i \in 1 .. TTACopies |->
                                ArgmaxBatch(params, trfm_X[i], masks[i])[1]]
              label == StatsMode(pred_y_list)
          IN  /\ ev' = [ev EXCEPT !.rest = Tail(@), !.y_pred = Append(@, label)]
              /\ tta' = [voted |-> TRUE, single_X |-> single_X, trfm_X |-> trfm_X,
                         pred_y_list |-> pred_y_list, label |-> label]
    /\ training' = ModeInPredict(training)
    /\ lastInfer' = [by |-> "predict", training |-> ModeInPredict(training)]
    /\ pc' = IF Tail(ev.rest) = <<>> THEN "eval_batch" ELSE "eval_tta"
    /\ UNCHANGED <<params, fit, result, call, written, probe>>
    /\ UNCHANGED scriptVars

\* baseline.py:151-155: the stream is exhausted; the score is computed and
\* returned, with the mean loss when a loss criterion was given
EvalReturn ==
    /\ pc = "eval_batch"
    /\ ~HasNext(ev.test_iter)
    /\ LET score == calculate_classification_score(ev.y_true, ev.y_pred)
           raises == ev.loss_criterion /\ DivisionRaises(ev.batch_count)
           mean == Div(ev.eval_loss_sum, ev.batch_count)
       IN  IF raises
           THEN /\ result' = [status |-> "ZeroDivisionError", op |-> call.op]
                /\ pc' = "done"
                /\ UNCHANGED fit
           ELSE IF ev.caller = "fit"
           THEN /\ fit' = [fit EXCEPT !.valid_acc = score, !.valid_loss = mean,
                                      !.validation_iter = ev.test_iter]
                /\ pc' = "fit_record"
                /\ UNCHANGED result
           ELSE /\ result' = IF ev.loss_criterion
                             THEN [status |-> "ok", op |-> "evaluation",
                                   score |-> score, loss |-> mean]
                             ELSE [status |-> "ok", op |-> "evaluation", score |-> score]
                /\ pc' = "done"
                /\ UNCHANGED fit
    /\ UNCHANGED <<params, training, ev, call, written, lastInfer, tta, probe>>
    /\ UNCHANGED scriptVars

\* the caller has the outcome of the call; the wrapper is ready for the next one
Return ==
    /\ pc = "done"
    /\ pc' = "idle"
    /\ fit' = NoFit
    /\ ev' = NoEv
    /\ result' = NoResult
    /\ call' = NoCall
    /\ written' = <<>>
    /\ lastInfer' = NoInfer
    /\ tta' = NoTta
    /\ UNCHANGED <<params, training, probe>>
    /\ UNCHANGED scriptVars

(* ------------------------- the wrapper's runs ------------------------ *)
\* the streams a caller may pass: None, a DataLoader or a generator
StreamArgs == {NoneStream} \cup Streams

EpochArgs == 0 .. MaxEpochs

CheckpointEpochArgs == {None} \cup {<<k>> : k \in 1 .. MaxEpochs}

SavePathArgs == {None, <<"c", "k", "p", "t">>}

\* the image batches a caller may pass to predict
PredictArgs == {BatchOf(k).X : k \in 1 .. MaxBatches} \cup {<<x>> : x \in Images}

InitWrapper ==
    /\ params \in ParamSpace
    /\ training \in BOOLEAN
    /\ pc = "idle"
    /\ fit = NoFit
    /\ ev = NoEv
    /\ result = NoResult
    /\ call = NoCall
    /\ written = <<>>
    /\ lastInfer = NoInfer
    /\ tta = NoTta
    /\ probe = NoProbe

IdleScript ==
    /\ file_list = <<>>
    /\ model_dict = <<>>
    /\ batch_size = 1
    /\ loader_pos = 0
    /\ predict_list = <<>>
    /\ noise_barrier_list = <<>>
    /\ copied = <<>>
    /\ spc = "off"

Init == InitWrapper /\ IdleScript

Next ==
    \/ \E train_iter \in StreamArgs, validation_iter \in StreamArgs,
          num_epochs \in EpochArgs, checkpoint_epochs \in CheckpointEpochArgs,
          model_save_path \in SavePathArgs :
          FitCall(train_iter, validation_iter, num_epochs, checkpoint_epochs,
                  model_save_path)
    \/ FitEpoch
    \/ FitTrainBatch
    \/ FitValidate
    \/ FitRecord
    \/ \E X \in PredictArgs : Predict(X)
    \/ \E test_iter \in Streams, loss_criterion \in BOOLEAN, TTA \in BOOLEAN :
          EvaluationCall(test_iter, loss_criterion, TTA)
    \/ EvalBatch
    \/ EvalTTASample
    \/ EvalReturn
    \/ Return

Spec == Init /\ [][Next]_vars

(* ----------------------- the inference script ------------------------ *)
\* PredictDataset(file_list)[i]: the image read from the i-th file
PredictDataset(files) == [i \in DOMAIN files |-> files[i].image]

\* DataLoader(predict_dataset, batch_size): the batch that follows the first
\* `pos` samples, at most `size` samples in data set order
DataLoaderBatch(dataset, pos, size) ==
    SubSeq(dataset, pos + 1, IF pos + size < Len(dataset) THEN pos + size ELSE Len(dataset))

\* the first sub-model's vote in place of the most frequent one
FirstVote(votes) == votes[1]

\* the label with the most votes, the first encountered one among equally
\* frequent labels
FirstMode(votes) ==
    LET best == Max({Count(votes, v) : v \in Range(votes)})
        first == Min({i \in DOMAIN votes : Count(votes, votes[i]) = best})
    IN  votes[first]

\* EnsembleClassificationModel(model_dict).predict(data): every sub-model
\* predicts the batch, each sample gets the label most sub-models gave it
EnsemblePredict(models, data) ==
    [i \in DOMAIN data |->
        FirstMode([k \in DOMAIN models |-> Argmax(models[k], data[i], 0)])]

\* predict.py:36: the class whose files are copied
TargetClass == 1

\* predict.py:36: [file for flag, file in zip(predict_list, file_list) if flag == 1]
RECURSIVE ZipFilter(_, _)
ZipFilter(flags, files) ==
    IF flags = <<>> \/ files = <<>> THEN <<>>
    ELSE (IF Head(flags) = TargetClass THEN <<Head(files)>> ELSE <<>>)
           \o ZipFilter(Tail(flags), Tail(files))

\* predict.py:24-27: the configuration is read and the ensemble built
ScriptLoad ==
    /\ spc = "start"
    /\ \E n \in 1 .. MaxModels : model_dict' \in [1 .. n -> ParamSpace]
    /\ spc' = "loaded"
    /\ UNCHANGED <<file_list, batch_size, loader_pos, predict_list, noise_barrier_list, copied>>
    /\ UNCHANGED wrapperVars

\* predict.py:29-32: the files are listed and the loader built
ScriptGlob ==
    /\ spc = "loaded"
    /\ \E n \in 0 .. MaxFiles : \E images \in [1 .. n -> Images] :
          file_list' = [i \in 1 .. n |-> [path |-> i, image |-> images[i]]]
    /\ batch_size' \in 1 .. MaxBatchSize
    /\ loader_pos' = 0
    /\ predict_list' = <<>>
    /\ spc' = "predicting"
    /\ UNCHANGED <<model_dict, noise_barrier_list, copied>>
    /\ UNCHANGED wrapperVars

\* predict.py:33-34: one batch of the loader
ScriptPredictBatch ==
    /\ spc = "predicting"
    /\ loader_pos < Len(file_list)
    /\ LET data == DataLoaderBatch(PredictDataset(file_list), loader_pos, batch_size)
       IN  /\ predict_list' = Extend(predict_list, EnsemblePredict(model_dict, data))
           /\ loader_pos' = loader_pos + Len(data)
    /\ UNCHANGED <<file_list, model_dict, batch_size, noise_barrier_list, copied, spc>>
    /\ UNCHANGED wrapperVars

\* predict.py:36: the loader is exhausted; the files of the target class are selected
ScriptFilter ==
    /\ spc = "predicting"
    /\ loader_pos >= Len(file_list)
    /\ noise_barrier_list' = ZipFilter(predict_list, file_list)
    /\ spc' = "filtered"
    /\ UNCHANGED <<file_list, model_dict, batch_size, loader_pos, predict_list, copied>>
    /\ UNCHANGED wrapperVars

\* predict.py:37-38: the selected files are handed to the copy step
ScriptCopy ==
    /\ spc = "filtered"
    /\ copied' = noise_barrier_list
    /\ spc' = "done"
    /\ UNCHANGED <<file_list, model_dict, batch_size, loader_pos, predict_list,
                   noise_barrier_list>>
    /\ UNCHANGED wrapperVars

IdleWrapper ==
    /\ params = 0
    /\ training = TRUE
    /\ pc = "off"
    /\ fit = NoFit
    /\ ev = NoEv
    /\ result = NoResult
    /\ call = NoCall
    /\ written = <<>>
    /\ lastInfer = NoInfer
    /\ tta = NoTta
    /\ probe = NoProbe

InitScript ==
    /\ IdleWrapper
    /\ file_list = <<>>
    /\ model_dict = <<>>
    /\ batch_size = 1
    /\ loader_pos = 0
    /\ predict_list = <<>>
    /\ noise_barrier_list = <<>>
    /\ copied = <<>>
    /\ spc = "start"

NextScript ==
    \/ ScriptLoad
    \/ ScriptGlob
    \/ ScriptPredictBatch
    \/ ScriptFilter
    \/ ScriptCopy

SpecScript == InitScript /\ [][NextScript]_vars

(* ------------------------------ claims ------------------------------- *)
Last(s) == s[Len(s)]

Abs(k) == IF k < 0 THEN 0 - k ELSE k

RECURSIVE SumSeq(_)
SumSeq(s) == IF s = <<>> THEN 0 ELSE Head(s) + SumSeq(Tail(s))

FitWithoutStream ==
    /\ call.op = "fit"
    /\ (call.train_iter.kind = "none" \/ call.validation_iter.kind = "none")

\* C1: fit called with the train stream or the validation stream absent ends
\* with InvalidArguments, and up to the error the weights are the ones at entry,
\* no optimizer step and no validation evaluation has run and no checkpoint
\* has been written.
C1_FitWithoutStreamFails ==
    FitWithoutStream =>
        /\ pc = "done"
        /\ result.status = "InvalidArguments"
        /\ params = call.params0
        /\ call.steps = 0
        /\ call.evals = 0
        /\ written = <<>>

C1_Witness ==
    /\ FitWithoutStream
    /\ call.train_iter.kind = "loader"
    /\ call.train_iter.batches # <<>>
    /\ call.num_epochs > 0
    /\ call.model_save_path # None
    /\ result.status = "InvalidArguments"

\* the mean of the per-batch losses of a stream under weights p in evaluation mode
MeanLoss(p, batches) ==
    Div(SumSeq([i \in DOMAIN batches |->
                  CrossEntropyLoss(p, batches[i].X, batches[i].y, 0)]),
        Len(batches))

\* C2: evaluation called with a loss function on a non-empty test stream
\* returns the score and the mean of the per-batch losses, with TTA and without.
C2_EvaluationReturnsMeanLoss ==
    (/\ pc = "done"
     /\ call.op = "evaluation"
     /\ call.loss_criterion
     /\ call.test_iter.batches # <<>>)
    => /\ result.status = "ok"
       /\ result.score = calculate_classification_score(ev.y_true, ev.y_pred)
       /\ result.loss = MeanLoss(params, call.test_iter.batches)

RECURSIVE YieldedX(_, _)
YieldedX(batches, k) ==
    IF k = 0 THEN <<>> ELSE YieldedX(batches, k - 1) \o batches[k].X

\* C4: under TTA every sample gets exactly 5 predictions, each made on a
\* single-sample augmented copy of that sample; the label recorded for it is one
\* of maximal frequency among the 5; one label is recorded per sample, in sample
\* order, so that predictions and true labels end with the same length.
C4_TTAVotesMode ==
    /\ tta.voted =>
          /\ Len(tta.pred_y_list) = 5
          /\ Len(tta.trfm_X) = 5
          /\ \A i \in 1 .. 5 :
                /\ Len(tta.trfm_X[i]) = 1
                /\ tta.trfm_X[i][1] \in {Augment(tta.single_X, d) : d \in AugDraws}
                /\ tta.pred_y_list[i] = Argmax(params, tta.trfm_X[i][1], 0)
          /\ \A v \in Labels : Count(tta.pred_y_list, v) <= Count(tta.pred_y_list, tta.label)
          /\ Last(ev.y_pred) = tta.label
          /\ YieldedX(ev.test_iter.batches, ev.test_iter.pos)[Len(ev.y_pred)] = tta.single_X
    /\ (ev.active /\ ev.TTA) =>
          /\ Len(ev.y_pred) + (IF pc = "eval_tta" THEN Len(ev.rest) ELSE 0) = Len(ev.y_true)
          /\ Len(ev.y_true) = Len(YieldedX(ev.test_iter.batches, ev.test_iter.pos))

C4_Witness ==
    /\ tta.voted
    /\ Len(ev.y_true) >= 2
    /\ Count(tta.pred_y_list, tta.label) = 3
    /\ tta.pred_y_list[1] # tta.label

\* the votes of the sub-models on the i-th file, in mapping order
Votes(i) == [k \in DOMAIN model_dict |-> Argmax(model_dict[k], file_list[i].image, 0)]

\* C5: the ensemble returns for every sample the label that a strict majority
\* of the sub-models gave it, whenever there is one: the common label when all
\* agree, the 2-count label when 3 sub-models split 2 to 1.
C5_EnsembleMajority ==
    \A i \in DOMAIN predict_list : \A v \in Labels :
        2 * Count(Votes(i), v) > Len(model_dict) => predict_list[i] = v

C5_Witness ==
    /\ Len(model_dict) = 3
    /\ \E i \in DOMAIN predict_list :
          /\ Count(Votes(i), predict_list[i]) = 2
          /\ Votes(i)[1] # predict_list[i]
    /\ \E i \in DOMAIN predict_list : Count(Votes(i), predict_list[i]) = 3

\* the positions of the files predicted as the target class
Selected == {i \in DOMAIN file_list : i \in DOMAIN predict_list /\ predict_list[i] = 1}

\* C6: once all batches are processed the i-th prediction is the ensemble's
\* prediction for the i-th file, for any number of files and any batch size,
\* and the list handed to the copy step holds exactly the files predicted as
\* class 1, in input order.
C6_PredictionsAlignedAndFiltered ==
    /\ spc \in {"filtered", "done"} =>
          /\ Len(predict_list) = Len(file_list)
          /\ \A i \in DOMAIN file_list :
                predict_list[i] = EnsemblePredict(model_dict, <<file_list[i].image>>)[1]
    /\ spc = "done" =>
          /\ Len(copied) = Cardinality(Selected)
          /\ \A i \in Selected :
                copied[Cardinality({j \in Selected : j <= i})] = file_list[i]

C6_Witness ==
    /\ spc = "done"
    /\ Len(file_list) = 3
    /\ batch_size = 2
    /\ Len(copied) = 2
    /\ predict_list[2] # 1

\* the thousandths nearest to the value of v
Nearest3(v) ==
    LET f == (1000 * v.num) \div v.den
    IN  {t \in {f, f + 1} : 2 * Abs(1000 * v.num - t * v.den) <= v.den}

\* t thousandths written with 3 decimals
Decimal3(t) == IntDigits(t \div 1000) \o <<".">> \o PadDigits(t % 1000, 3)

\* "{save_path}/epoch{N}_trainloss{L:.3f}_validloss{L:.3f}_trainacc{A:.3f}_validacc{A:.3f}.pth"
DocumentedName(save_path, N, tl, vl, ta, va) ==
    save_path \o <<"/", "e", "p", "o", "c", "h">> \o IntDigits(N)
      \o <<"_", "t", "r", "a", "i", "n", "l", "o", "s", "s">> \o Decimal3(tl)
      \o <<"_", "v", "a", "l", "i", "d", "l", "o", "s", "s">> \o Decimal3(vl)
      \o <<"_", "t", "r", "a", "i", "n", "a", "c", "c">> \o Decimal3(ta)
      \o <<"_", "v", "a", "l", "i", "d", "a", "c", "c">> \o Decimal3(va)
      \o <<".", "p", "t", "h">>

\* epoch1_trainloss0.123_validloss0.456_trainacc0.789_validacc0.321.pth
ExampleName ==
    <<"e", "p", "o", "c", "h", "1",
      "_", "t", "r", "a", "i", "n", "l", "o", "s", "s", "0", ".", "1", "2", "3",
      "_", "v", "a", "l", "i", "d", "l", "o", "s", "s", "0", ".", "4", "5", "6",
      "_", "t", "r", "a", "i", "n", "a", "c", "c", "0", ".", "7", "8", "9",
      "_", "v", "a", "l", "i", "d", "a", "c", "c", "0", ".", "3", "2", "1",
      ".", "p", "t", "h">>

\* the number of the k-th epoch of the call in progress
EpochNumber(k) == (IF Truthy(call.checkpoint_epochs) THEN call.num_epochs ELSE 0) + k

SavingFit == fit.active /\ call.model_save_path # None

\* C7: with model_save_path set, fit writes one checkpoint per completed epoch,
\* after that epoch's validation evaluation, under the documented name: the
\* epoch number and that epoch's mean train loss, validation loss, train
\* accuracy and validation accuracy to 3 decimals (the documented example
\* included); the checkpoints of one call have pairwise distinct names.
C7_CheckpointPerEpoch ==
    /\ CheckpointName(<<"d">>, 0, Div(123, 1000), Div(456, 1000), Div(789, 1000),
                      Div(321, 1000))
         = <<"d", "/">> \o ExampleName
    /\ SavingFit =>
          /\ Len(written) = Len(fit.train_acc_list)
          /\ Len(written) <= call.evals
          /\ pc = "fit_epoch" => Len(written) = call.evals
          /\ \A i, j \in DOMAIN written : i # j => written[i].path # written[j].path
    /\ (SavingFit /\ pc = "fit_epoch" /\ written # <<>>) =>
          \E tl \in Nearest3(Div(fit.train_loss_sum, fit.batch_count)),
             vl \in Nearest3(fit.valid_loss),
             ta \in Nearest3(Last(fit.train_acc_list)),
             va \in Nearest3(Last(fit.valid_acc_list)) :
             Last(written).path
               = DocumentedName(call.model_save_path, EpochNumber(Len(written)), tl, vl, ta, va)

C7_Witness ==
    /\ SavingFit
    /\ pc = "fit_epoch"
    /\ Len(written) = 2
    /\ Truthy(call.checkpoint_epochs)
    /\ fit.valid_loss # Last(fit.train_acc_list)
    /\ Last(fit.train_acc_list).num * 1000 % Last(fit.train_acc_list).den # 0

PredictReturned == pc = "done" /\ call.op = "predict"

SameCallAsProbe == probe.set /\ probe.params = params /\ probe.X = call.X

\* C8: predict returns one label per sample of the batch, every label within
\* [0, num_classes), and a call with the same weights and the same batch as an
\* earlier call returns what the earlier call returned.
C8_PredictShapeAndDeterminism ==
    PredictReturned =>
        /\ result.status = "ok"
        /\ Len(result.value) = Len(call.X)
        /\ \A i \in DOMAIN result.value : result.value[i] \in Labels
        /\ SameCallAsProbe => result.value = probe.out

C8_Witness ==
    /\ PredictReturned
    /\ call.compared
    /\ SameCallAsProbe
    /\ Len(call.X) = 2
    /\ result.value[1] # result.value[2]

\* C9: the weights change only in an optimizer step of fit, taken in training
\* mode; predict and evaluation leave the weights as they were at entry and run
\* every forward pass in evaluation mode; fit enters training mode at the start
\* of every epoch, the previous epoch's validation having left evaluation mode.
C9_ModesAndWeights ==
    [][/\ params' # params => (pc = "fit_train" /\ pc' = "fit_train" /\ training)
       /\ (pc = "fit_train" /\ pc' = "fit_train") => (training /\ training')
       /\ call'.op \in {"predict", "evaluation"} => params' = call'.params0
       /\ (lastInfer' # lastInfer /\ lastInfer'.by \in {"predict", "evaluation"})
            => (~lastInfer'.training /\ ~training')
       /\ (pc = "fit_epoch" /\ pc' = "fit_train")
            => (training' /\ (fit.train_acc_list # <<>> => ~training))
    ]_vars

C9_Witness ==
    /\ pc = "fit_train"
    /\ fit.train_acc_list # <<>>
    /\ training
    /\ call.steps >= 2
    /\ params # call.params0
    /\ lastInfer.by = "fit"

\* the fit call in progress has started an epoch in which the train stream or
\* the validation stream yielded no batch
EpochWithoutBatch ==
    /\ call.op = "fit"
    /\ fit.active
    /\ call.passes > 0
    /\ \/ fit.batch_count = 0
       \/ (pc \in {"fit_record", "fit_epoch", "done"} /\ ev.batch_count = 0)

\* C10: fit completes an epoch only if both streams yielded a batch in it; an
\* epoch in which the train stream or the validation stream yields no batch
\* ends the call with an error, with no accuracy recorded and no checkpoint
\* written for that epoch, and with the checkpoints of the earlier epochs written.
C10_EmptyEpochFails ==
    /\ (fit.active /\ pc = "fit_epoch" /\ fit.train_acc_list # <<>>) =>
          (fit.batch_count > 0 /\ ev.batch_count > 0)
    /\ (EpochWithoutBatch /\ pc \in {"fit_epoch", "done"}) =>
          /\ pc = "done"
          /\ result.status = "ZeroDivisionError"
          /\ Len(fit.train_acc_list) = call.passes - 1
          /\ Len(fit.valid_acc_list) = call.passes - 1
          /\ Len(written) = (IF call.model_save_path # None THEN call.passes - 1 ELSE 0)

C10_Witness ==
    /\ EpochWithoutBatch
    /\ pc = "done"
    /\ call.train_iter.kind = "generator"
    /\ call.validation_iter.kind = "loader"
    /\ call.passes = 2
    /\ Len(written) = 1
    /\ result.status = "ZeroDivisionError"

C10_WitnessValidation ==
    /\ EpochWithoutBatch
    /\ pc = "done"
    /\ fit.batch_count > 0
    /\ call.validation_iter.kind = "generator"
    /\ call.passes = 2
    /\ Len(written) = 1

=============================================================================
